---- MODULE Spec2Model ----
(***************************************************************************)
(* Model of the App component of frontend/index.jsx: the eight useState    *)
(* cells, the useEffect keyed on `selected`, the event handlers, and the   *)
(* continuations of the four kinds of fetch() after their await.           *)
(*                                                                         *)
(* A step is one browser task: an event handler together with the render   *)
(* and the effects it causes (React 18 batches the setState calls of one   *)
(* task and flushes the effects of a discrete event synchronously), or the *)
(* continuation of one async function after its fetch settled.             *)
(***************************************************************************)
EXTENDS Integers, Sequences, FiniteSets, TLC

\* ------------------------------------------------------------------ bounds
\* Largest number of fetches the user's actions issue in one run (the
\* fetchReviews that follows a successful POST or DELETE is not counted).
MaxRequests == 3

\* ------------------------------------------------------- program constants
PageSize  == 10     \* Math.ceil(totalResults / 10)
NoContent == 204    \* res.status !== 204

\* ----------------------------------------------------------------- values
\* JavaScript null and a string are told apart: null is the empty tuple, the
\* string t is <<t>>.
Null    == <<>>
Some(t) == <<t>>

\* JavaScript truthiness of `selected`: null and '' are falsy.
Truthy(sel) == sel # Null /\ sel[1] # ""

\* Text the user types is a sequence of characters, so that trim() is computed.
RECURSIVE TrimStart(_)
TrimStart(s) == IF s # <<>> /\ Head(s) = " " THEN TrimStart(Tail(s)) ELSE s

RECURSIVE TrimEnd(_)
TrimEnd(s) ==
  IF s # <<>> /\ s[Len(s)] = " " THEN TrimEnd(SubSeq(s, 1, Len(s) - 1)) ELSE s

Trim(s) == TrimEnd(TrimStart(s))

\* !s.trim()
IsBlank(s) == Trim(s) = <<>>

\* Math.ceil(n / d) for n >= 0
Ceil(n, d) == (n + d - 1) \div d

\* ----------------------------------------------------------------- inputs
\* What the user types into the keyword input and into the review textarea.
Keywords    == { <<" ">>, <<"k">> }
Drafts      == { <<" ">>, <<"g">> }
Titles      == { "", "A", "B" }
ReviewLists == { <<>>, <<1>> }
Statuses    == { 200, NoContent, 500 }

\* A response body.  kind: "none" (no body read), "nonjson" (res.json()
\* rejects), "search" ({results, totalResults}), "error" ({error}; error = ""
\* stands for a body without a truthy error field), "list" (a JSON array of
\* reviews, each review given by its id).
NoBody == [kind |-> "none", results |-> <<>>, totalResults |-> 0,
           error |-> "", items |-> <<>>]
NonJson         == [NoBody EXCEPT !.kind = "nonjson"]
SearchBody(rs, n) == [NoBody EXCEPT !.kind = "search", !.results = rs,
                                    !.totalResults = n]
ErrorBody(msg)  == [NoBody EXCEPT !.kind = "error", !.error = msg]
ListBody(l)     == [NoBody EXCEPT !.kind = "list", !.items = l]

\* Array.isArray-like test behind reviews.length / reviews.map
IsArray(b) == b.kind = "list"

\* The outcome of one fetch(): net = TRUE is a rejected fetch (network
\* failure), otherwise a response with a status and a body.
NetworkFailure == [net |-> TRUE, status |-> 0, body |-> NoBody]
Response(s, b) == [net |-> FALSE, status |-> s, body |-> b]
NoResponse     == [net |-> FALSE, status |-> 0, body |-> NoBody]

\* res.ok
IsOk(r) == r.status >= 200 /\ r.status <= 299

SearchBodies ==
  { SearchBody(<<"", "A", "B">>, 15), SearchBody(<<"A">>, 5) }

SearchResponses ==
  {NetworkFailure}
    \cup { Response(200, b) : b \in SearchBodies }
    \cup { Response(500, b) : b \in {ErrorBody("Movie not found!"), ErrorBody(""), NonJson} }

ReviewsResponses ==
  {NetworkFailure}
    \cup { Response(200, ListBody(l)) : l \in ReviewLists }
    \cup { Response(500, b) : b \in {ErrorBody("Server error"), NonJson} }

StatusResponses == {NetworkFailure} \cup { Response(s, NoBody) : s \in Statuses }

\* err.message of the TypeError a rejected fetch() throws, and of the
\* SyntaxError a rejected res.json() throws.
NetworkErrorMessage == "Failed to fetch"
JsonErrorMessage    == "Unexpected token < in JSON"

\* A fetch() in flight together with what its async function captured:
\* q, p are fetchMovies' parameters; title is fetchReviews' parameter, or the
\* `selected` captured by submitReview / deleteReview; text is the captured
\* reviewText; rid the review id.
Request(k, q, p, title, text, rid) ==
  [kind |-> k, q |-> q, p |-> p, title |-> title, text |-> text, rid |-> rid]
SearchRequest(q, p)      == Request("search", q, p, "", <<>>, 0)
ReviewsRequest(title)    == Request("reviews", <<>>, 0, title, <<>>, 0)
PostRequest(title, text) == Request("post", <<>>, 0, title, text, 0)
DeleteRequest(rid, title) == Request("delete", <<>>, 0, title, <<>>, rid)

\* ------------------------------------------------------------------ state
VARIABLES
  keyword,       \* useState('')
  page,          \* useState(1)
  movies,        \* useState([]): the Title of each movie, in order
  totalResults,  \* useState(0)
  error,         \* useState('')
  selected,      \* useState(null)
  reviews,       \* useState([]): the body last given to setReviews
  reviewText,    \* useState('')
  requests,      \* the fetches in flight: number of issue |-> Request
  issued,        \* how many fetches were issued so far
  accepted,      \* how many of them were issued by an event handler or effect
  reviewsFor,    \* the title `reviews` was fetched for (Null: for none)
  last           \* the step just taken

uiVars == <<keyword, page, movies, totalResults, error, selected, reviews,
            reviewText, reviewsFor>>
vars == <<keyword, page, movies, totalResults, error, selected, reviews,
          reviewText, requests, issued, accepted, reviewsFor, last>>

\* op: the handler or continuation that ran; id: the number of the fetch it
\* issued or whose settling it handled (0: none); resp: what that fetch
\* settled with.
Step(op, id, resp) == [op |-> op, id |-> id, resp |-> resp]

\* ----------------------------------------------------------------- render
\* reviews.length / reviews.map are evaluated only inside {selected && ...};
\* on a value that is no array the render throws and React unmounts the root.
RenderThrows == Truthy(selected) /\ ~IsArray(reviews)
Mounted      == ~RenderThrows

\* {!selected && (<form ...>)}, {!selected && movies.map(...)}
SearchViewVisible == Mounted /\ ~Truthy(selected)
\* {selected && (<div id="reviews-container"> ...)}
ReviewViewVisible == Mounted /\ Truthy(selected)

\* totalPages computed with Math.floor in place of Math.ceil
TotalPages_floor == totalResults \div PageSize

\* const totalPages = Math.ceil(totalResults / 10)
TotalPages == Ceil(totalResults, PageSize)

\* renderPagination(): null (here the empty sequence) when totalPages <= 1,
\* else one button per p = 1..totalPages in the order pushed, with its text
\* {p}, its disabled attribute and the page its onClick passes to fetchMovies.
renderPagination ==
  IF TotalPages <= 1
  THEN <<>>
  ELSE [p \in 1..TotalPages |->
          [label |-> p, disabled |-> (p = page), onClick |-> p]]

\* --------------------------------------------------------------- requests
pending == DOMAIN requests

\* The user may cause another fetch.
CanIssue == accepted < MaxRequests

Without(id) == [i \in pending \ {id} |-> requests[i]]

\* fetch(...) is called by an event handler or by the effect
Issue(req) ==
  /\ requests' = requests @@ ((issued + 1) :> req)
  /\ issued'   = issued + 1
  /\ accepted' = accepted + 1

\* No fetch is issued and none settles.
NoFetch == UNCHANGED <<requests, issued, accepted>>

\* The fetch numbered id settles and its continuation calls fetch(...).
SettleAndIssue(id, req) ==
  /\ requests' = Without(id) @@ ((issued + 1) :> req)
  /\ issued'   = issued + 1
  /\ accepted' = accepted

\* The fetch numbered id settles.
Settle(id) ==
  /\ requests' = Without(id)
  /\ UNCHANGED <<issued, accepted>>

\* ------------------------------------------------------------------- Init
Init ==
  /\ keyword = <<>>
  /\ page = 1
  /\ movies = <<>>
  /\ totalResults = 0
  /\ error = ""
  /\ selected = Null
  /\ reviews = ListBody(<<>>)
  /\ reviewText = <<>>
  /\ requests = <<>>
  /\ issued = 0
  /\ accepted = 0
  /\ reviewsFor = Null
  /\ last = Step("init", 0, NoResponse)

\* ----------------------------------------------------------- user actions
\* onChange of the keyword input (rendered in the search view only)
setKeyword(k) ==
  /\ SearchViewVisible
  /\ k # keyword
  /\ keyword' = k
  /\ UNCHANGED <<page, movies, totalResults, error, selected, reviews,
                 reviewText, reviewsFor>>
  /\ NoFetch
  /\ last' = Step("setKeyword", 0, NoResponse)

\* fetchMovies(q, p) up to its first await: three setState calls and fetch()
fetchMovies(q, p) ==
  /\ error' = ""
  /\ movies' = <<>>
  /\ totalResults' = 0
  /\ Issue(SearchRequest(q, p))

\* handleSearch with `if (!keyword) return;`, without the trim()
handleSearch_withoutTrim ==
  /\ SearchViewVisible
  /\ IF keyword = <<>>
     THEN /\ UNCHANGED uiVars /\ NoFetch
          /\ last' = Step("handleSearchBlank", 0, NoResponse)
     ELSE /\ CanIssue
          /\ selected' = Null
          /\ fetchMovies(keyword, 1)
          /\ UNCHANGED <<keyword, page, reviews, reviewText, reviewsFor>>
          /\ last' = Step("handleSearch", issued + 1, NoResponse)

\* onSubmit of the search form.  setSelected(null) can change `selected`
\* only from '' to null, for which the effect issues nothing.
handleSearch ==
  /\ SearchViewVisible
  /\ IF IsBlank(keyword)
     THEN /\ UNCHANGED uiVars /\ NoFetch
          /\ last' = Step("handleSearchBlank", 0, NoResponse)
     ELSE /\ CanIssue
          /\ selected' = Null
          /\ fetchMovies(keyword, 1)
          /\ UNCHANGED <<keyword, page, reviews, reviewText, reviewsFor>>
          /\ last' = Step("handleSearch", issued + 1, NoResponse)

\* onClick of pagination button p: rendered when totalPages > 1, for
\* p = 1..totalPages, disabled when p === page.
changePage(p) ==
  /\ SearchViewVisible
  /\ \E i \in 1..Len(renderPagination) :
        /\ ~renderPagination[i].disabled
        /\ renderPagination[i].onClick = p
  /\ CanIssue
  /\ fetchMovies(keyword, p)
  /\ UNCHANGED <<keyword, page, selected, reviews, reviewText, reviewsFor>>
  /\ last' = Step("changePage", issued + 1, NoResponse)

\* useEffect(() => { if (selected) fetchReviews(selected); }, [selected]):
\* runs after the commit of a render in which `selected` changed; a render
\* that throws commits nothing and runs no effect.
useEffectSelected ==
  IF selected' # selected /\ Truthy(selected') /\ IsArray(reviews')
  THEN CanIssue /\ Issue(ReviewsRequest(selected'[1]))
  ELSE NoFetch

\* onClick of "View & Add Reviews" of a movie card with this Title
selectMovie(title) ==
  /\ SearchViewVisible
  /\ \E i \in 1..Len(movies) : movies[i] = title
  /\ selected' = Some(title)
  /\ reviewText' = <<>>
  /\ UNCHANGED <<keyword, page, movies, totalResults, error, reviews,
                 reviewsFor>>
  /\ useEffectSelected
  /\ last' = Step("selectMovie", 0, NoResponse)

\* the Back button with a handler that also empties the review list
back_clearsReviews ==
  /\ ReviewViewVisible
  /\ selected' = Null
  /\ reviews' = ListBody(<<>>)
  /\ UNCHANGED <<keyword, page, movies, totalResults, error, reviewText,
                 reviewsFor>>
  /\ useEffectSelected
  /\ last' = Step("back", 0, NoResponse)

\* onClick of "Back to Search": setSelected(null)
back ==
  /\ ReviewViewVisible
  /\ selected' = Null
  /\ UNCHANGED <<keyword, page, movies, totalResults, error, reviews,
                 reviewText, reviewsFor>>
  /\ useEffectSelected
  /\ last' = Step("back", 0, NoResponse)

\* onChange of the review textarea (rendered in the review view only)
setReviewText(t) ==
  /\ ReviewViewVisible
  /\ t # reviewText
  /\ reviewText' = t
  /\ UNCHANGED <<keyword, page, movies, totalResults, error, selected,
                 reviews, reviewsFor>>
  /\ NoFetch
  /\ last' = Step("setReviewText", 0, NoResponse)

\* onClick of "Submit Review", up to the await of the POST
submitReview ==
  /\ ReviewViewVisible
  /\ IF IsBlank(reviewText)
     THEN /\ NoFetch
          /\ last' = Step("submitReviewBlank", 0, NoResponse)
     ELSE /\ CanIssue
          /\ Issue(PostRequest(selected[1], reviewText))
          /\ last' = Step("submitReview", issued + 1, NoResponse)
  /\ UNCHANGED uiVars

\* deleteReview without its `if (!confirm(...)) return;`
deleteReview_ignoresConfirm(rid, confirmed) ==
  /\ ReviewViewVisible
  /\ \E i \in 1..Len(reviews.items) : reviews.items[i] = rid
  /\ CanIssue
  /\ Issue(DeleteRequest(rid, selected[1]))
  /\ UNCHANGED uiVars
  /\ last' = IF confirmed THEN Step("deleteReview", issued + 1, NoResponse)
                          ELSE Step("deleteReviewDeclined", 0, NoResponse)

\* onClick of the Delete button of review rid, up to the await of the DELETE;
\* confirmed is what confirm('Delete this review?') returns.
deleteReview(rid, confirmed) ==
  /\ ReviewViewVisible
  /\ \E i \in 1..Len(reviews.items) : reviews.items[i] = rid
  /\ IF ~confirmed
     THEN NoFetch
     ELSE CanIssue /\ Issue(DeleteRequest(rid, selected[1]))
  /\ UNCHANGED uiVars
  /\ last' = IF confirmed THEN Step("deleteReview", issued + 1, NoResponse)
                          ELSE Step("deleteReviewDeclined", 0, NoResponse)

\* -------------------------------------------------------------- responses
\* A setState call of a continuation that runs after the root was unmounted
\* changes nothing; the fetches such a continuation issues are still sent.

\* fetchMovies reaches its catch block: fetch() rejected, res.json() rejected,
\* or !res.ok
SearchFails(r) == r.net \/ r.body.kind = "nonjson" \/ ~IsOk(r)

\* err.message in fetchMovies' catch block
SearchErrorMessage(r) ==
  IF r.net THEN NetworkErrorMessage
  ELSE IF r.body.kind = "nonjson" THEN JsonErrorMessage
  ELSE IF r.body.error # "" THEN r.body.error    \* data.error || 'Search failed'
  ELSE "Search failed"

\* fetchMovies without its setPage(p)
fetchMoviesResponse_withoutSetPage(id, r) ==
  /\ id \in pending
  /\ requests[id].kind = "search"
  /\ r \in SearchResponses
  /\ Settle(id)
  /\ IF ~Mounted THEN UNCHANGED <<movies, totalResults, error>>
     ELSE IF SearchFails(r)
     THEN /\ error' = SearchErrorMessage(r)
          /\ UNCHANGED <<movies, totalResults>>
     ELSE /\ movies' = r.body.results
          /\ totalResults' = r.body.totalResults
          /\ UNCHANGED error
  /\ UNCHANGED <<keyword, page, selected, reviews, reviewText, reviewsFor>>
  /\ last' = Step("fetchMoviesResponse", id, r)

\* fetchMovies with a sequence-number guard: a response is dropped when a
\* search issued later is still in flight
fetchMoviesResponse_latestOnly(id, r) ==
  /\ id \in pending
  /\ requests[id].kind = "search"
  /\ r \in SearchResponses
  /\ Settle(id)
  /\ IF ~Mounted
        \/ \E j \in pending : j > id /\ requests[j].kind = "search"
     THEN UNCHANGED <<movies, totalResults, page, error>>
     ELSE IF SearchFails(r)
     THEN /\ error' = SearchErrorMessage(r)
          /\ UNCHANGED <<movies, totalResults, page>>
     ELSE /\ movies' = r.body.results
          /\ totalResults' = r.body.totalResults
          /\ page' = requests[id].p
          /\ UNCHANGED error
  /\ UNCHANGED <<keyword, selected, reviews, reviewText, reviewsFor>>
  /\ last' = Step("fetchMoviesResponse", id, r)

\* fetchMovies after its awaits, for the fetch numbered id
fetchMoviesResponse(id, r) ==
  /\ id \in pending
  /\ requests[id].kind = "search"
  /\ r \in SearchResponses
  /\ Settle(id)
  /\ IF ~Mounted THEN UNCHANGED <<movies, totalResults, page, error>>
     ELSE IF SearchFails(r)
     THEN /\ error' = SearchErrorMessage(r)
          /\ UNCHANGED <<movies, totalResults, page>>
     ELSE /\ movies' = r.body.results
          /\ totalResults' = r.body.totalResults
          /\ page' = requests[id].p
          /\ UNCHANGED error
  /\ UNCHANGED <<keyword, selected, reviews, reviewText, reviewsFor>>
  /\ last' = Step("fetchMoviesResponse", id, r)

\* fetchReviews reaches its catch block: fetch() rejected or res.json()
\* rejected; res.ok is not consulted
ReviewsFails(r) == r.net \/ r.body.kind = "nonjson"

\* fetchReviews after its awaits, for the fetch numbered id
fetchReviewsResponse(id, r) ==
  /\ id \in pending
  /\ requests[id].kind = "reviews"
  /\ r \in ReviewsResponses
  /\ Settle(id)
  /\ IF ~Mounted THEN UNCHANGED <<reviews, reviewsFor, error>>
     ELSE IF ReviewsFails(r)
     THEN /\ error' = "Failed to load reviews."
          /\ UNCHANGED <<reviews, reviewsFor>>
     ELSE /\ reviews' = r.body
          /\ reviewsFor' = Some(requests[id].title)
          /\ UNCHANGED error
  /\ UNCHANGED <<keyword, page, movies, totalResults, selected, reviewText>>
  /\ last' = Step("fetchReviewsResponse", id, r)

\* submitReview without its fetchReviews(selected)
submitReviewResponse_withoutRefresh(id, r) ==
  /\ id \in pending
  /\ requests[id].kind = "post"
  /\ r \in StatusResponses
  /\ Settle(id)
  /\ IF r.net \/ ~IsOk(r)
     THEN /\ error' = IF ~Mounted THEN error
                      ELSE IF r.net THEN NetworkErrorMessage ELSE "Submit failed"
          /\ UNCHANGED reviewText
     ELSE /\ reviewText' = IF Mounted THEN <<>> ELSE reviewText
          /\ UNCHANGED error
  /\ UNCHANGED <<keyword, page, movies, totalResults, selected, reviews,
                 reviewsFor>>
  /\ last' = Step("submitReviewResponse", id, r)

\* submitReview with setReviewText('') moved before `if (!res.ok) throw`
submitReviewResponse_clearsBeforeOkCheck(id, r) ==
  /\ id \in pending
  /\ requests[id].kind = "post"
  /\ r \in StatusResponses
  /\ IF r.net
     THEN /\ Settle(id)
          /\ error' = IF ~Mounted THEN error ELSE NetworkErrorMessage
          /\ UNCHANGED reviewText
     ELSE IF ~IsOk(r)
     THEN /\ Settle(id)
          /\ error' = IF ~Mounted THEN error ELSE "Submit failed"
          /\ reviewText' = IF Mounted THEN <<>> ELSE reviewText
     ELSE /\ SettleAndIssue(id, ReviewsRequest(requests[id].title))
          /\ reviewText' = IF Mounted THEN <<>> ELSE reviewText
          /\ UNCHANGED error
  /\ UNCHANGED <<keyword, page, movies, totalResults, selected, reviews,
                 reviewsFor>>
  /\ last' = Step("submitReviewResponse", id, r)

\* submitReview after its await, for the POST numbered id; `selected` in
\* fetchReviews(selected) is the value the handler captured when it was called
submitReviewResponse(id, r) ==
  /\ id \in pending
  /\ requests[id].kind = "post"
  /\ r \in StatusResponses
  /\ IF r.net \/ ~IsOk(r)
     THEN /\ Settle(id)
          /\ error' = IF ~Mounted THEN error
                      ELSE IF r.net THEN NetworkErrorMessage ELSE "Submit failed"
          /\ UNCHANGED reviewText
     ELSE /\ SettleAndIssue(id, ReviewsRequest(requests[id].title))
          /\ reviewText' = IF Mounted THEN <<>> ELSE reviewText
          /\ UNCHANGED error
  /\ UNCHANGED <<keyword, page, movies, totalResults, selected, reviews,
                 reviewsFor>>
  /\ last' = Step("submitReviewResponse", id, r)

\* deleteReview with `if (!res.ok)` in place of `if (res.status !== 204)`
deleteReviewResponse_acceptsAnyOk(id, r) ==
  /\ id \in pending
  /\ requests[id].kind = "delete"
  /\ r \in StatusResponses
  /\ IF r.net \/ ~IsOk(r)
     THEN /\ Settle(id)
          /\ error' = IF ~Mounted THEN error
                      ELSE IF r.net THEN NetworkErrorMessage ELSE "Delete failed"
     ELSE /\ SettleAndIssue(id, ReviewsRequest(requests[id].title))
          /\ UNCHANGED error
  /\ UNCHANGED <<keyword, page, movies, totalResults, selected, reviews,
                 reviewText, reviewsFor>>
  /\ last' = Step("deleteReviewResponse", id, r)

\* deleteReview after its await, for the DELETE numbered id
deleteReviewResponse(id, r) ==
  /\ id \in pending
  /\ requests[id].kind = "delete"
  /\ r \in StatusResponses
  /\ IF r.net \/ r.status # NoContent
     THEN /\ Settle(id)
          /\ error' = IF ~Mounted THEN error
                      ELSE IF r.net THEN NetworkErrorMessage ELSE "Delete failed"
     ELSE /\ SettleAndIssue(id, ReviewsRequest(requests[id].title))
          /\ UNCHANGED error
  /\ UNCHANGED <<keyword, page, movies, totalResults, selected, reviews,
                 reviewText, reviewsFor>>
  /\ last' = Step("deleteReviewResponse", id, r)

\* ---------------------------------------------------------- specification
Next ==
  \/ \E k \in Keywords : setKeyword(k)
  \/ handleSearch
  \/ \E p \in 1..TotalPages : changePage(p)
  \/ \E t \in Titles : selectMovie(t)
  \/ back
  \/ \E t \in Drafts : setReviewText(t)
  \/ submitReview
  \/ \E i \in 1..Len(reviews.items), c \in BOOLEAN :
       deleteReview(reviews.items[i], c)
  \/ \E id \in 1..(2 * MaxRequests), r \in SearchResponses : fetchMoviesResponse(id, r)
  \/ \E id \in 1..(2 * MaxRequests), r \in ReviewsResponses : fetchReviewsResponse(id, r)
  \/ \E id \in 1..(2 * MaxRequests), r \in StatusResponses : submitReviewResponse(id, r)
  \/ \E id \in 1..(2 * MaxRequests), r \in StatusResponses : deleteReviewResponse(id, r)

Spec == Init /\ [][Next]_vars

\* ================================================================= claims
\* What the steps of the claims are recognised by.
Handled(op)       == last.op = op
HandledNext(op)   == last'.op = op
\* A request failed: the fetch was rejected or the status is not 2xx.
RequestFailed(r)  == r.net \/ ~IsOk(r)
NoReviewsFetchPending ==
  \A i \in pending : requests[i].kind # "reviews"

\* C1: in every reachable state exactly one of the search view and the review
\* view is visible, the search view exactly when selected is null and the
\* review view exactly when it is not, whatever title was selected.
C1_ViewDecidedBySelectedNull ==
  /\ SearchViewVisible # ReviewViewVisible
  /\ SearchViewVisible <=> (selected = Null)
  /\ ReviewViewVisible <=> (selected # Null)

\* C2: in review mode with no review fetch pending, reviews is never a list
\* that was fetched for a title other than the selected one (the part of the
\* claim that rules out stale lists: it is the list of the latest fetch for
\* selected, so it was fetched for selected).
C2_ReviewsNeverOfAnotherTitle ==
  (ReviewViewVisible /\ NoReviewsFetchPending)
    => (reviewsFor = Null \/ reviewsFor = selected)

\* C3: when a review fetch fails (network failure or a non-2xx status with
\* any body), error becomes the load-failure message and reviews is what it
\* was before the response was handled.
C3_FailedReviewFetchKeepsReviews ==
  [][ (HandledNext("fetchReviewsResponse") /\ Mounted
         /\ RequestFailed(last'.resp))
        => (error' = "Failed to load reviews." /\ reviews' = reviews) ]_vars

\* C4: issuing a search and issuing a review submission each leave error
\* empty; issuing a delete and handling the success of a review fetch or of
\* a delete leave error as it was.
C4_SearchAndSubmitClearError ==
  [][ /\ (HandledNext("handleSearch") \/ HandledNext("submitReview"))
           => error' = ""
      /\ ( \/ HandledNext("deleteReview")
           \/ (HandledNext("fetchReviewsResponse") /\ ~RequestFailed(last'.resp))
           \/ (HandledNext("deleteReviewResponse") /\ ~last'.resp.net
                 /\ last'.resp.status = NoContent) )
           => error' = error ]_vars

\* C5: right after a failed search response is handled error is non-empty
\* and the search result is empty (no movies, totalResults 0), also when
\* other searches were issued or settled while this one was in flight.
C5_FailedSearchLeavesResultEmpty ==
  (Handled("fetchMoviesResponse") /\ Mounted /\ RequestFailed(last.resp))
    => (error # "" /\ movies = <<>> /\ totalResults = 0)

\* C6: when a search response succeeds, right after it is handled movies and
\* totalResults are the response's results and totalResults and page is the
\* page that request asked for; and movies, totalResults and page change in
\* no other way than all three from one successful response, or movies and
\* totalResults being cleared by the issue of a search.
C6_SuccessfulSearchSetsResultAndPage ==
  [][ /\ (HandledNext("fetchMoviesResponse") /\ Mounted
            /\ ~RequestFailed(last'.resp))
           => /\ movies' = last'.resp.body.results
              /\ totalResults' = last'.resp.body.totalResults
              /\ page' = requests[last'.id].p
      /\ (movies' # movies \/ totalResults' # totalResults \/ page' # page)
           => \/ /\ HandledNext("fetchMoviesResponse")
                 /\ ~RequestFailed(last'.resp)
              \/ /\ HandledNext("handleSearch") \/ HandledNext("changePage")
                 /\ movies' = <<>> /\ totalResults' = 0 /\ page' = page ]_vars

\* A page-2 search succeeded while another search was still in flight.
C6_Witness ==
  /\ Handled("fetchMoviesResponse") /\ Mounted /\ ~RequestFailed(last.resp)
  /\ page = 2 /\ movies = last.resp.body.results /\ movies # <<>>
  /\ \E i \in pending : requests[i].kind = "search" /\ requests[i].p = 1

\* C7: every selectMovie(title) sets selected to title, clears reviewText and
\* issues exactly one review fetch, for that title.
C7_SelectIssuesOneFetch ==
  [][ HandledNext("selectMovie")
        => /\ selected' # Null
           /\ reviewText' = <<>>
           /\ issued' = issued + 1
           /\ DOMAIN requests' = DOMAIN requests \cup {issued'}
           /\ requests'[issued'] = ReviewsRequest(selected'[1]) ]_vars

C9_FailedSubmitShowsSubmitFailed ==
  [][ (HandledNext("submitReviewResponse") /\ Mounted
         /\ RequestFailed(last'.resp))
        => /\ error' = "Submit failed"
           /\ reviewText' = reviewText
           /\ reviews' = reviews
           /\ issued' = issued ]_vars

\* C9 as amended: when a POST fails, error becomes 'Submit failed' for a
\* non-2xx status and the message of the rejected fetch for a network
\* failure; reviewText and reviews are unchanged and no fetch is issued.
C9_FailedSubmitKeepsDraft ==
  [][ (HandledNext("submitReviewResponse") /\ Mounted
         /\ RequestFailed(last'.resp))
        => /\ error' = IF last'.resp.net THEN NetworkErrorMessage
                                          ELSE "Submit failed"
           /\ error' # ""
           /\ reviewText' = reviewText
           /\ reviews' = reviews
           /\ issued' = issued
           /\ DOMAIN requests' = DOMAIN requests \ {last'.id} ]_vars

\* A POST was answered with a non-2xx status and the draft is still there.
C9_Witness ==
  /\ Handled("submitReviewResponse") /\ Mounted
  /\ ~last.resp.net /\ ~IsOk(last.resp)
  /\ error = "Submit failed" /\ ~IsBlank(reviewText)

\* C10: a DELETE is sent only by a deleteReview whose confirm() returned
\* true; when it returned false no fetch is issued and reviews, error,
\* selected and reviewText are unchanged.
C10_DeleteOnlyAfterConfirm ==
  [][ /\ HandledNext("deleteReviewDeclined")
           => UNCHANGED <<requests, issued, reviews, error, selected, reviewText>>
      /\ (\E i \in DOMAIN requests' \ DOMAIN requests : requests'[i].kind = "delete")
           => HandledNext("deleteReview") ]_vars

\* The user declined to delete a review of the list on show.
C10_Witness ==
  /\ Handled("deleteReviewDeclined") /\ ReviewViewVisible
  /\ reviews.items # <<>> /\ pending = {}

\* C11: a DELETE succeeds only when it is answered with status exactly 204,
\* and then exactly one review fetch is issued; for every other status, 200
\* included, and for a network failure, error is set and no fetch is issued.
C11_DeleteSucceedsOnlyOn204 ==
  [][ HandledNext("deleteReviewResponse")
        => IF ~last'.resp.net /\ last'.resp.status = 204
           THEN /\ issued' = issued + 1
                /\ requests' = Without(last'.id)
                      @@ (issued' :> ReviewsRequest(requests[last'.id].title))
           ELSE /\ Mounted => error' # ""
                /\ issued' = issued
                /\ requests' = Without(last'.id) ]_vars

\* A DELETE was answered 200 and is reported as failed, with nothing in
\* flight afterwards.
C11_Witness ==
  /\ Handled("deleteReviewResponse") /\ Mounted
  /\ ~last.resp.net /\ last.resp.status = 200
  /\ error = "Delete failed" /\ pending = {}

\* C12: submitting the search form with a keyword that is empty or only
\* whitespace, and submitting a review whose draft is empty or only
\* whitespace, issue no request and change no state (error included).
C12_BlankInputIsNoOp ==
  [][ /\ ( /\ HandledNext("handleSearch") \/ HandledNext("handleSearchBlank")
           /\ IsBlank(keyword) )
         => UNCHANGED <<uiVars, requests, issued, accepted>>
      /\ ( /\ HandledNext("submitReview") \/ HandledNext("submitReviewBlank")
           /\ IsBlank(reviewText) )
         => UNCHANGED <<uiVars, requests, issued, accepted>> ]_vars

\* The search form was submitted with a whitespace-only keyword while
\* results of an earlier search were shown.
C12_Witness ==
  /\ Handled("handleSearchBlank")
  /\ keyword = <<" ">>
  /\ movies # <<>>
  /\ issued = 1 /\ pending = {}

\* C13: Back sets selected to null and changes nothing else, and issues no
\* request; while the review view is shown only a search response changes
\* keyword, movies, totalResults or page, so the search view after Back is
\* the one held when the movie was selected.
C13_BackChangesOnlySelected ==
  [][ /\ HandledNext("back")
         => /\ selected' = Null
            /\ UNCHANGED <<keyword, movies, totalResults, page, error,
                           reviews, reviewText, requests, issued>>
      /\ (ReviewViewVisible /\ ~HandledNext("fetchMoviesResponse"))
         => UNCHANGED <<keyword, movies, totalResults, page>> ]_vars

\* Back was pressed with a draft typed and a non-empty review list loaded.
C13_Witness ==
  /\ Handled("back")
  /\ selected = Null
  /\ movies # <<>>
  /\ reviewText # <<>>
  /\ IsArray(reviews) /\ reviews.items # <<>>

\* C14 as stated: no reachable state makes rendering throw, and reviews is an
\* array in every reachable state.
C14_RenderNeverThrows ==
  /\ IsArray(reviews)
  /\ ~RenderThrows

\* C15 as stated: a click on pagination control p behaves as Search(keyword,
\* p) with Search's precondition: with a blank keyword it issues nothing and
\* changes nothing, otherwise it clears error and the search result and
\* issues one search request for the held keyword.
C15_ChangePageIsGuardedSearch ==
  [][ HandledNext("changePage")
        => IF IsBlank(keyword)
           THEN UNCHANGED <<uiVars, requests, issued, accepted>>
           ELSE /\ error' = "" /\ movies' = <<>> /\ totalResults' = 0
                /\ issued' = issued + 1
                /\ \E p \in 1..TotalPages :
                     requests' = requests
                        @@ (issued' :> SearchRequest(keyword, p)) ]_vars

\* C16: in the search view there is no pagination control when totalResults
\* <= 10; otherwise there are n controls, n the least number of pages of 10
\* that hold totalResults, labelled 1..n in ascending order, control p
\* requesting page p and disabled exactly when p is the current page.
C16_PaginationControls ==
  SearchViewVisible =>
    IF totalResults <= 10
    THEN renderPagination = <<>>
    ELSE LET n == CHOOSE k \in 1..totalResults :
                    10 * k >= totalResults /\ 10 * (k - 1) < totalResults
         IN /\ Len(renderPagination) = n
            /\ \A p \in 1..n :
                 renderPagination[p]
                   = [label |-> p, disabled |-> (p = page), onClick |-> p]

\* 15 results are shown on page 1: two controls, the first one disabled.
C16_Witness ==
  /\ SearchViewVisible
  /\ Handled("fetchMoviesResponse")
  /\ totalResults = 15 /\ page = 1
  /\ Len(renderPagination) = 2
  /\ renderPagination[1].disabled
  /\ ~renderPagination[2].disabled

\* C17: issuing a search cancels no request in flight, and every successful
\* search response is applied when it is handled, whether the searches still
\* in flight were issued before or after its request, and leaves them in
\* flight: with two searches in flight the response handled last decides
\* movies, totalResults and page.
C17_LastHandledSearchWins ==
  [][ /\ (HandledNext("handleSearch") \/ HandledNext("changePage"))
         => \A i \in pending :
              i \in DOMAIN requests' /\ requests'[i] = requests[i]
      /\ ( /\ HandledNext("fetchMoviesResponse") /\ Mounted
           /\ ~RequestFailed(last'.resp) )
         => /\ <<movies', totalResults', page'>>
                 = <<last'.resp.body.results, last'.resp.body.totalResults,
                     requests[last'.id].p>>
            /\ requests' = Without(last'.id) ]_vars

\* The page-2 search numbered 2 and the page-1 search numbered 3 were in
\* flight together and both succeeded (error is still empty); the response
\* to 3 was handled first, the response to 2 last, and its result and page
\* are the ones held.
C17_Witness ==
  /\ Handled("fetchMoviesResponse") /\ Mounted
  /\ last.id = 2 /\ issued = 3 /\ pending = {}
  /\ error = ""
  /\ page = 2
  /\ movies = last.resp.body.results /\ movies # <<>>

\* C18 as stated: every step issues exactly one request when it is an accepted
\* user action (non-blank search, page change, movie selection, non-blank
\* review submission, confirmed delete) or the handling of a successful POST
\* or of a DELETE answered 204, and no request otherwise; so a failed
\* response causes no further request and nothing is retried.
C18_OneRequestPerAcceptedAction ==
  [][ issued' - issued
        = IF \/ last'.op \in { "handleSearch", "changePage", "selectMovie",
                               "submitReview", "deleteReview" }
             \/ /\ HandledNext("submitReviewResponse")
                /\ ~RequestFailed(last'.resp)
             \/ /\ HandledNext("deleteReviewResponse")
                /\ ~last'.resp.net /\ last'.resp.status = NoContent
          THEN 1
          ELSE 0 ]_vars

\* C19 as stated: a search request is issued only while selected is null; a
\* POST or a DELETE is issued only while selected is not null, and the POST
\* carries the title selected at that moment.
C19_RequestsIssuedFromTheirMode ==
  [][ /\ (HandledNext("handleSearch") \/ HandledNext("changePage"))
         => selected = Null
      /\ HandledNext("submitReview")
         => /\ selected # Null
            /\ requests'[issued'] = PostRequest(selected[1], reviewText)
      /\ HandledNext("deleteReview")
         => /\ selected # Null
            /\ requests'[issued'].kind = "delete"
            /\ requests'[issued'].title = selected[1] ]_vars

====
